---- MODULE Spec2Model ----
(***************************************************************************)
(* Model of feast.entity.Entity (sdk/python/feast/entity.py).              *)
(*                                                                         *)
(* The state is a small Python heap: Entity objects, the label mappings    *)
(* they refer to, one mapping held by the caller, and the outcome of the   *)
(* last call.  Every method of the class that the properties below speak   *)
(* about is an operator computed as the code computes it, and an action    *)
(* that applies the operator to objects of the heap.                       *)
(***************************************************************************)
EXTENDS Integers, Sequences, FiniteSets, TLC

VARIABLES
    live,      \* the Entity objects that have been constructed (by identity)
    entities,  \* object identity -> the object's attributes
    maps,      \* mapping identity -> <<contents>> of a live mapping, <<>> if free
    L,         \* the mapping the caller holds and may pass as labels=
    shared,    \* history: pairs of holders whose labels came from one assignment
    result     \* the last call and what it returned or raised

vars == <<live, entities, maps, L, shared, result>>

----------------------------------------------------------------------------
(* Bounds and input domains *)

MaxMaps == 3
MaxSeconds == 1

Objects == {1, 2}
Caller == 0
Holders == Objects \cup {Caller}

None == <<>>
Some(x) == <<x>>

Names == {"", "driver"}
Descriptions == {"", "d"}
JoinKeys == {"", "dk"}
JoinKeyArgs == {None} \cup {Some(k) : k \in JoinKeys}
LabelKeys == {"team"}
LabelVals == {"ml"}
LabelMaps == UNION {[S -> LabelVals] : S \in SUBSET LabelKeys}
NoLabels == [k \in {} |-> "ml"]

----------------------------------------------------------------------------
(* feast.value_type.ValueType and the wire enum of the same names *)

ValueTypes == {"UNKNOWN", "STRING"}
ValueTypeValue == [UNKNOWN |-> 0, STRING |-> 2]
ValueType(code) == CHOOSE v \in ValueTypes : ValueTypeValue[v] = code
ValueTypeCodes == {ValueTypeValue[v] : v \in ValueTypes}
ValueTypeTruthy(v) == ValueTypeValue[v] # 0

----------------------------------------------------------------------------
(* Python truthiness of the values the class tests *)

StrTruthy(s) == s # ""
OptStrTruthy(x) == x # None /\ StrTruthy(x[1])
DatetimeTruthy(x) == x # None

----------------------------------------------------------------------------
(* google.protobuf.Timestamp <-> datetime.  A datetime is a naive UTC value *)
(* with microsecond resolution, held as microseconds since the epoch.       *)

ToDatetime(ts) == ts.seconds * 1000000 + (ts.nanos \div 1000)
FromDatetime(dt) == [seconds |-> dt \div 1000000, nanos |-> (dt % 1000000) * 1000]
ZeroTimestamp == [seconds |-> 0, nanos |-> 0]

(* The JSON form of a Timestamp: whole seconds and a fraction printed with  *)
(* 0, 3, 6 or 9 digits, whichever is the shortest that loses nothing.       *)
Pow10(n) == CASE n = 0 -> 1 [] n = 3 -> 1000 [] n = 6 -> 1000000 [] n = 9 -> 1000000000
FractionDigits(nanos) ==
    IF nanos = 0 THEN 0
    ELSE IF nanos % 1000000 = 0 THEN 3
    ELSE IF nanos % 1000 = 0 THEN 6
    ELSE 9
ToJsonString(ts) ==
    LET d == FractionDigits(ts.nanos)
    IN  [seconds |-> ts.seconds, digits |-> d, fraction |-> ts.nanos \div Pow10(9 - d)]
FromJsonString(js) ==
    [seconds |-> js.seconds, nanos |-> js.fraction * Pow10(9 - js.digits)]

----------------------------------------------------------------------------
(* The wire message: EntityV2Proto(spec=EntitySpecV2, meta=EntityMeta).     *)
(* A message field carries a presence bit; a scalar field does not.         *)

EntitySpecProto(name, description, value_type, labels, join_key) ==
    [name |-> name, description |-> description, value_type |-> value_type,
     labels |-> labels, join_key |-> join_key]
EmptySpecProto == EntitySpecProto("", "", 0, NoLabels, "")
EntityMetaProto ==
    [has_created_timestamp |-> FALSE, created_timestamp |-> ZeroTimestamp,
     has_last_updated_timestamp |-> FALSE, last_updated_timestamp |-> ZeroTimestamp]
EntityV2Proto(spec, meta) ==
    [has_spec |-> TRUE, spec |-> spec, has_meta |-> TRUE, meta |-> meta]
EmptyEntityV2Proto ==
    [has_spec |-> FALSE, spec |-> EmptySpecProto, has_meta |-> FALSE, meta |-> EntityMetaProto]

----------------------------------------------------------------------------
(* The Entity object *)

Blank ==
    [name |-> "", value_type |-> "UNKNOWN", join_key |-> "", description |-> "",
     labels |-> 0, created_timestamp |-> None, last_updated_timestamp |-> None]

\* __init__ falling back to name only for join_key=None
EntityInit_NoneOnly(name, value_type, description, join_key, labels) ==
    [name |-> name,
     value_type |-> value_type,
     join_key |-> IF join_key # None THEN join_key[1] ELSE name,
     description |-> description,
     labels |-> labels,
     created_timestamp |-> None,
     last_updated_timestamp |-> None]

\* __init__; labels is the identity of the mapping the object will refer to
EntityInit(name, value_type, description, join_key, labels) ==
    [name |-> name,
     value_type |-> value_type,
     join_key |-> IF OptStrTruthy(join_key) THEN join_key[1] ELSE name,
     description |-> description,
     labels |-> labels,
     created_timestamp |-> None,
     last_updated_timestamp |-> None]

\* the contents of the mapping an object's labels attribute refers to
LabelsOf(e, heap) == heap[e.labels][1]

\* a hash of the name alone
Hash_NameOnly(o, e) == <<e.name>>

Hash(o, e) == <<o, e.name>>

Returned(v) == [raised |-> "", value |-> Some(v)]
Raised(x) == [raised |-> x, value |-> None]
ReturnedNone == [raised |-> "", value |-> None]

\* __eq__ without the join_key comparison
Eq_NoJoinKey(self, other, heap) ==
    IF other[1] # "Entity" THEN Raised("TypeError")
    ELSE IF \/ heap[self.labels][1] # heap[other[2].labels][1]
            \/ self.name # other[2].name
            \/ self.description # other[2].description
            \/ self.value_type # other[2].value_type
         THEN Returned(FALSE)
         ELSE Returned(TRUE)

\* __eq__; other is <<"Entity", attributes>> or <<"object">>
Eq(self, other, heap) ==
    IF other[1] # "Entity" THEN Raised("TypeError")
    ELSE IF \/ LabelsOf(self, heap) # LabelsOf(other[2], heap)
            \/ self.name # other[2].name
            \/ self.description # other[2].description
            \/ self.value_type # other[2].value_type
            \/ self.join_key # other[2].join_key
         THEN Returned(FALSE)
         ELSE Returned(TRUE)

\* is_valid testing the type against None only
is_valid_NoneTypeOnly(self) ==
    IF ~StrTruthy(self.name) THEN Raised("ValueError")
    ELSE ReturnedNone

is_valid(self) ==
    IF ~StrTruthy(self.name) THEN Raised("ValueError")
    ELSE IF ~ValueTypeTruthy(self.value_type) THEN Raised("ValueError")
    ELSE ReturnedNone

\* from_proto that does not pass join_key on
from_proto_NoJoinKey(entity_proto, labels) ==
    LET entity == EntityInit(entity_proto.spec.name,
                             ValueType(entity_proto.spec.value_type),
                             entity_proto.spec.description,
                             None,
                             labels)
        created == IF entity_proto.meta.has_created_timestamp
                   THEN Some(ToDatetime(entity_proto.meta.created_timestamp))
                   ELSE entity.created_timestamp
        updated == IF entity_proto.meta.has_last_updated_timestamp
                   THEN Some(ToDatetime(entity_proto.meta.last_updated_timestamp))
                   ELSE entity.last_updated_timestamp
    IN  [entity EXCEPT !.created_timestamp = created, !.last_updated_timestamp = updated]

\* from_proto that reads the meta fields without asking HasField
from_proto_NoHasField(entity_proto, labels) ==
    LET entity == EntityInit(entity_proto.spec.name,
                             ValueType(entity_proto.spec.value_type),
                             entity_proto.spec.description,
                             Some(entity_proto.spec.join_key),
                             labels)
    IN  [entity EXCEPT
            !.created_timestamp = Some(ToDatetime(entity_proto.meta.created_timestamp)),
            !.last_updated_timestamp = Some(ToDatetime(entity_proto.meta.last_updated_timestamp))]

\* from_proto; labels is the identity of the message's labels container
from_proto(entity_proto, labels) ==
    LET entity == EntityInit(entity_proto.spec.name,
                             ValueType(entity_proto.spec.value_type),
                             entity_proto.spec.description,
                             Some(entity_proto.spec.join_key),
                             labels)
        created == IF entity_proto.meta.has_created_timestamp
                   THEN Some(ToDatetime(entity_proto.meta.created_timestamp))
                   ELSE entity.created_timestamp
        updated == IF entity_proto.meta.has_last_updated_timestamp
                   THEN Some(ToDatetime(entity_proto.meta.last_updated_timestamp))
                   ELSE entity.last_updated_timestamp
    IN  [entity EXCEPT !.created_timestamp = created, !.last_updated_timestamp = updated]

to_proto(self, heap) ==
    LET meta0 == EntityMetaProto
        meta1 == IF DatetimeTruthy(self.created_timestamp)
                 THEN [meta0 EXCEPT !.has_created_timestamp = TRUE,
                                    !.created_timestamp = FromDatetime(self.created_timestamp[1])]
                 ELSE meta0
        meta  == IF DatetimeTruthy(self.last_updated_timestamp)
                 THEN [meta1 EXCEPT !.has_last_updated_timestamp = TRUE,
                                    !.last_updated_timestamp = FromDatetime(self.last_updated_timestamp[1])]
                 ELSE meta1
        spec  == EntitySpecProto(self.name, self.description, ValueTypeValue[self.value_type],
                                 LabelsOf(self, heap), self.join_key)
    IN  EntityV2Proto(spec, meta)

\* google.protobuf.json_format.MessageToDict: a scalar at its default value
\* and a message field that is not present are left out
MessageToDict(message) ==
    LET spec == message.spec
        meta == message.meta
        specKeys == {k \in {"name", "description", "valueType", "labels", "joinKey"} :
                        \/ k = "name" /\ spec.name # ""
                        \/ k = "description" /\ spec.description # ""
                        \/ k = "valueType" /\ spec.value_type # 0
                        \/ k = "labels" /\ DOMAIN spec.labels # {}
                        \/ k = "joinKey" /\ spec.join_key # ""}
        specDict == [k \in specKeys |->
                        CASE k = "name" -> spec.name
                          [] k = "description" -> spec.description
                          [] k = "valueType" -> ValueType(spec.value_type)
                          [] k = "labels" -> spec.labels
                          [] k = "joinKey" -> spec.join_key]
        metaKeys == {k \in {"createdTimestamp", "lastUpdatedTimestamp"} :
                        \/ k = "createdTimestamp" /\ meta.has_created_timestamp
                        \/ k = "lastUpdatedTimestamp" /\ meta.has_last_updated_timestamp}
        metaDict == [k \in metaKeys |->
                        CASE k = "createdTimestamp" -> ToJsonString(meta.created_timestamp)
                          [] k = "lastUpdatedTimestamp" -> ToJsonString(meta.last_updated_timestamp)]
        keys == {k \in {"spec", "meta"} :
                        \/ k = "spec" /\ message.has_spec
                        \/ k = "meta" /\ message.has_meta}
    IN  [k \in keys |-> IF k = "spec" THEN specDict ELSE metaDict]

\* a ParseDict that knows the fields by their schema names only
ParseDict_SchemaNamesOnly(js_dict) ==
    LET has_spec == "spec" \in DOMAIN js_dict
        s == IF has_spec THEN js_dict["spec"] ELSE NoLabels
        has_meta == "meta" \in DOMAIN js_dict
        m == IF has_meta THEN js_dict["meta"] ELSE NoLabels
        spec == EntitySpecProto(
                    IF "name" \in DOMAIN s THEN s["name"] ELSE "",
                    IF "description" \in DOMAIN s THEN s["description"] ELSE "",
                    IF "value_type" \in DOMAIN s THEN ValueTypeValue[s["value_type"]] ELSE 0,
                    IF "labels" \in DOMAIN s THEN s["labels"] ELSE NoLabels,
                    IF "join_key" \in DOMAIN s THEN s["join_key"] ELSE "")
        meta == [has_created_timestamp |-> "created_timestamp" \in DOMAIN m,
                 created_timestamp |->
                     IF "created_timestamp" \in DOMAIN m
                     THEN FromJsonString(m["created_timestamp"]) ELSE ZeroTimestamp,
                 has_last_updated_timestamp |-> "last_updated_timestamp" \in DOMAIN m,
                 last_updated_timestamp |->
                     IF "last_updated_timestamp" \in DOMAIN m
                     THEN FromJsonString(m["last_updated_timestamp"]) ELSE ZeroTimestamp]
    IN  [has_spec |-> has_spec, spec |-> spec, has_meta |-> has_meta, meta |-> meta]

\* json_format.ParseDict(js_dict, EntityV2Proto(), ignore_unknown_fields=True)
ParseDict(js_dict) ==
    LET has_spec == "spec" \in DOMAIN js_dict
        s == IF has_spec THEN js_dict["spec"] ELSE NoLabels
        has_meta == "meta" \in DOMAIN js_dict
        m == IF has_meta THEN js_dict["meta"] ELSE NoLabels
        spec == EntitySpecProto(
                    IF "name" \in DOMAIN s THEN s["name"] ELSE "",
                    IF "description" \in DOMAIN s THEN s["description"] ELSE "",
                    IF "valueType" \in DOMAIN s THEN ValueTypeValue[s["valueType"]] ELSE 0,
                    IF "labels" \in DOMAIN s THEN s["labels"] ELSE NoLabels,
                    IF "joinKey" \in DOMAIN s THEN s["joinKey"] ELSE "")
        meta == [has_created_timestamp |-> "createdTimestamp" \in DOMAIN m,
                 created_timestamp |->
                     IF "createdTimestamp" \in DOMAIN m
                     THEN FromJsonString(m["createdTimestamp"]) ELSE ZeroTimestamp,
                 has_last_updated_timestamp |-> "lastUpdatedTimestamp" \in DOMAIN m,
                 last_updated_timestamp |->
                     IF "lastUpdatedTimestamp" \in DOMAIN m
                     THEN FromJsonString(m["lastUpdatedTimestamp"]) ELSE ZeroTimestamp]
    IN  [has_spec |-> has_spec, spec |-> spec, has_meta |-> has_meta, meta |-> meta]

from_dict(entity_dict, labels) == from_proto(ParseDict(entity_dict), labels)

\* to_dict without the removal of an empty "meta"
to_dict_KeepEmptyMeta(self, heap) ==
    LET entity_dict == MessageToDict(to_proto(self, heap))
    IN  IF "meta" \notin DOMAIN entity_dict THEN Raised("KeyError")
        ELSE Returned(entity_dict)

to_dict(self, heap) ==
    LET entity_dict == MessageToDict(to_proto(self, heap))
    IN  IF "meta" \notin DOMAIN entity_dict THEN Raised("KeyError")
        ELSE IF DOMAIN entity_dict["meta"] = {}
             THEN Returned([k \in DOMAIN entity_dict \ {"meta"} |-> entity_dict[k]])
             ELSE Returned(entity_dict)

\* an update that keeps a timestamp of the receiver where the source has none
_update_from_entity_Merge(self, entity) ==
    [self EXCEPT
        !.name = entity.name,
        !.description = entity.description,
        !.value_type = entity.value_type,
        !.labels = entity.labels,
        !.join_key = entity.join_key,
        !.created_timestamp =
            IF entity.created_timestamp # None THEN entity.created_timestamp ELSE @,
        !.last_updated_timestamp =
            IF entity.last_updated_timestamp # None THEN entity.last_updated_timestamp ELSE @]

_update_from_entity(self, entity) ==
    LET s1 == [self EXCEPT !.name = entity.name]
        s2 == [s1 EXCEPT !.description = entity.description]
        s3 == [s2 EXCEPT !.value_type = entity.value_type]
        s4 == [s3 EXCEPT !.labels = entity.labels]
        s5 == [s4 EXCEPT !.join_key = entity.join_key]
        s6 == [s5 EXCEPT !.created_timestamp = entity.created_timestamp]
    IN  [s6 EXCEPT !.last_updated_timestamp = entity.last_updated_timestamp]

----------------------------------------------------------------------------
(* The heap of mappings *)

FreeCells(heap) == {r \in DOMAIN heap : heap[r] = None}
NewCell(heap) == CHOOSE r \in FreeCells(heap) : \A q \in FreeCells(heap) : r <= q

\* a constructor that copies the mapping it is given
StoreLabels_Copy(labels, heap) ==
    IF labels = None
    THEN [ref |-> NewCell(heap), heap |-> [heap EXCEPT ![NewCell(heap)] = Some(NoLabels)]]
    ELSE [ref |-> NewCell(heap), heap |-> [heap EXCEPT ![NewCell(heap)] = heap[labels[1]]]]

\* __init__: labels=None makes a new dict, anything else is kept as given
StoreLabels(labels, heap) ==
    IF labels = None
    THEN [ref |-> NewCell(heap), heap |-> [heap EXCEPT ![NewCell(heap)] = Some(NoLabels)]]
    ELSE [ref |-> labels[1], heap |-> heap]

\* a mapping no variable and no object refers to is reclaimed
Collect(heap, ents, lv, keep) ==
    [r \in DOMAIN heap |->
        IF r = keep \/ \E o \in lv : ents[o].labels = r THEN heap[r] ELSE None]

RefOf(h) == IF h = Caller THEN L ELSE entities[h].labels
LabelsSeenBy(h) == maps[RefOf(h)][1]

----------------------------------------------------------------------------
(* Inputs *)

TimestampInputs ==
    {ZeroTimestamp} \cup {[seconds |-> sec, nanos |-> 1500] : sec \in 1..MaxSeconds}
OptTimestamps == {None} \cup {Some(t) : t \in TimestampInputs}
MetaWith(c, u) ==
    [has_created_timestamp |-> c # None,
     created_timestamp |-> IF c # None THEN c[1] ELSE ZeroTimestamp,
     has_last_updated_timestamp |-> u # None,
     last_updated_timestamp |-> IF u # None THEN u[1] ELSE ZeroTimestamp]

\* arguments a caller may give the constructor (labels is chosen by the call):
\* every combination of name, value type and join key, and every description
ConstructInputs ==
    {[name |-> n, value_type |-> vt, description |-> "", join_key |-> j] :
        n \in Names, vt \in ValueTypes, j \in JoinKeyArgs}
    \cup {[name |-> "driver", value_type |-> "STRING", description |-> d, join_key |-> None] :
        d \in Descriptions}

\* messages a registry may hand to from_proto: every combination of name, value
\* type and join key, of description and labels, and of the two meta fields; the
\* empty message
ProtoInputs ==
    {[has_spec |-> TRUE, spec |-> EntitySpecProto(n, "", c, NoLabels, j),
      has_meta |-> FALSE, meta |-> EntityMetaProto] :
        n \in Names, c \in ValueTypeCodes, j \in JoinKeys}
    \cup {EntityV2Proto(EntitySpecProto("driver", d, 2, l, ""), EntityMetaProto) :
        d \in Descriptions, l \in LabelMaps}
    \cup {EntityV2Proto(EntitySpecProto("driver", "", 2, NoLabels, ""), MetaWith(c, u)) :
        c \in OptTimestamps, u \in OptTimestamps}
    \cup {EmptyEntityV2Proto}

\* mappings a YAML document may load to
DictInputs ==
    { [spec |-> [name |-> "driver", unknown_field |-> 1]],
      [spec |-> [name |-> "driver", valueType |-> "STRING"],
       meta |-> [lastUpdatedTimestamp |-> [seconds |-> 1, digits |-> 6, fraction |-> 1]]],
      [meta |-> NoLabels] }

----------------------------------------------------------------------------
(* Actions *)

Init ==
    /\ live = {}
    /\ entities = [o \in Objects |-> Blank]
    /\ L = 1
    /\ maps = [r \in 1..MaxMaps |-> IF r = 1 THEN Some(NoLabels) ELSE None]
    /\ shared = {}
    /\ result = [op |-> "none"]

\* o = Entity(args.name, args.value_type, args.description, args.join_key, labels)
\* labels is None or Some(Caller), the mapping the caller holds
Construct(o, args, labels) ==
    /\ o \notin live
    /\ labels # None \/ FreeCells(maps) # {}
    /\ LET st == StoreLabels(IF labels = None THEN None ELSE Some(L), maps)
       IN  /\ entities' = [entities EXCEPT
                              ![o] = EntityInit(args.name, args.value_type, args.description,
                                               args.join_key, st.ref)]
           /\ maps' = st.heap
    /\ live' = live \cup {o}
    /\ shared' = IF labels = None THEN shared ELSE shared \cup {{o, Caller}}
    /\ result' = [op |-> "init", self |-> o]
    /\ UNCHANGED L

\* o = Entity.from_proto(entity_proto)
FromProto(o, entity_proto) ==
    /\ o \notin live
    /\ FreeCells(maps) # {}
    /\ LET r == NewCell(maps)
       IN  /\ maps' = [maps EXCEPT ![r] = Some(entity_proto.spec.labels)]
           /\ entities' = [entities EXCEPT ![o] = from_proto(entity_proto, r)]
    /\ live' = live \cup {o}
    /\ result' = [op |-> "from_proto", self |-> o, arg |-> entity_proto]
    /\ UNCHANGED <<L, shared>>

\* o = Entity.from_dict(entity_dict)
FromDict(o, entity_dict) ==
    /\ o \notin live
    /\ FreeCells(maps) # {}
    /\ LET r == NewCell(maps)
       IN  /\ maps' = [maps EXCEPT ![r] = Some(ParseDict(entity_dict).spec.labels)]
           /\ entities' = [entities EXCEPT ![o] = from_dict(entity_dict, r)]
    /\ live' = live \cup {o}
    /\ result' = [op |-> "from_dict", self |-> o, arg |-> entity_dict]
    /\ UNCHANGED <<L, shared>>

\* a._update_from_entity(b)
UpdateFromEntity(a, b) ==
    /\ a \in live /\ b \in live
    /\ entities' = [entities EXCEPT ![a] = _update_from_entity(entities[a], entities[b])]
    /\ maps' = Collect(maps, entities', live, L)
    /\ shared' = IF a = b THEN shared
                 ELSE {pr \in shared : a \notin pr} \cup {{a, b}}
    /\ result' = [op |-> "update", self |-> a, other |-> b,
                  self_before |-> entities[a],
                  other_before |-> entities[b],
                  other_labels_before |-> LabelsOf(entities[b], maps)]
    /\ UNCHANGED <<live, L>>

\* h.labels[k] = v, or L[k] = v by the caller
LabelsSet(h, k, v) ==
    /\ h = Caller \/ h \in live
    /\ maps' = [maps EXCEPT ![RefOf(h)] = Some([x \in DOMAIN LabelsSeenBy(h) \cup {k} |->
                                                    IF x = k THEN v ELSE LabelsSeenBy(h)[x]])]
    /\ result' = [op |-> "labels_set", self |-> h]
    /\ UNCHANGED <<live, entities, L, shared>>

\* del h.labels[k], or del L[k] by the caller
LabelsDel(h, k) ==
    /\ h = Caller \/ h \in live
    /\ k \in DOMAIN LabelsSeenBy(h)
    /\ maps' = [maps EXCEPT ![RefOf(h)] = Some([x \in DOMAIN LabelsSeenBy(h) \ {k} |->
                                                    LabelsSeenBy(h)[x]])]
    /\ result' = [op |-> "labels_del", self |-> h]
    /\ UNCHANGED <<live, entities, L, shared>>

\* a.is_valid()
IsValid(a) ==
    /\ a \in live
    /\ result' = [op |-> "is_valid", self |-> a, before |-> entities[a],
                  ret |-> is_valid(entities[a])]
    /\ UNCHANGED <<live, entities, maps, L, shared>>

\* a == other, other an Entity object or anything else
EqCall(a, other) ==
    /\ a \in live
    /\ other[1] = "Entity" => other[2] \in live
    /\ result' = [op |-> "eq", self |-> a, other |-> other,
                  ret |-> Eq(entities[a],
                             IF other[1] = "Entity"
                             THEN <<"Entity", entities[other[2]]>> ELSE <<"object">>,
                             maps)]
    /\ UNCHANGED <<live, entities, maps, L, shared>>

\* hash(a)
HashCall(a) ==
    /\ a \in live
    /\ result' = [op |-> "hash", self |-> a, ret |-> Hash(a, entities[a])]
    /\ UNCHANGED <<live, entities, maps, L, shared>>

\* a.to_proto()
ToProto(a) ==
    /\ a \in live
    /\ result' = [op |-> "to_proto", self |-> a, ret |-> to_proto(entities[a], maps)]
    /\ UNCHANGED <<live, entities, maps, L, shared>>

\* a.to_dict()
ToDict(a) ==
    /\ a \in live
    /\ result' = [op |-> "to_dict", self |-> a, ret |-> to_dict(entities[a], maps)]
    /\ UNCHANGED <<live, entities, maps, L, shared>>

\* o = Entity.from_proto(s.to_proto())
ProtoRoundTrip(o, s) ==
    /\ s \in live
    /\ FromProto(o, to_proto(entities[s], maps))

\* o = Entity.from_dict(s.to_dict())
DictRoundTrip(o, s) ==
    /\ s \in live
    /\ to_dict(entities[s], maps).raised = ""
    /\ FromDict(o, to_dict(entities[s], maps).value[1])

Next ==
    \/ \E o \in Objects, args \in ConstructInputs, lab \in {None, Some(Caller)} :
          Construct(o, args, lab)
    \/ \E o \in Objects, p \in ProtoInputs : FromProto(o, p)
    \/ \E o \in Objects, s \in Objects : ProtoRoundTrip(o, s)
    \/ \E o \in Objects, d \in DictInputs : FromDict(o, d)
    \/ \E o \in Objects, s \in Objects : DictRoundTrip(o, s)
    \/ \E a \in Objects, b \in Objects : UpdateFromEntity(a, b)
    \/ \E h \in Holders, k \in LabelKeys, v \in LabelVals : LabelsSet(h, k, v)
    \/ \E h \in Holders, k \in LabelKeys : LabelsDel(h, k)
    \/ \E a \in Objects : IsValid(a)
    \/ \E a \in Objects :
          \E other \in {<<"Entity", b>> : b \in Objects \ {a}} \cup {<<"object", 0>>} :
             EqCall(a, other)
    \/ \E a \in Objects : HashCall(a)
    \/ \E a \in Objects : ToProto(a)
    \/ \E a \in Objects : ToDict(a)

Spec == Init /\ [][Next]_vars

----------------------------------------------------------------------------
(* Properties *)

Self == entities[result.self]
IsCall(op) == result.op = op

\* the five attributes __eq__ is said to compare
FiveEqual(a, b) ==
    /\ LabelsOf(a, maps) = LabelsOf(b, maps)
    /\ a.name = b.name
    /\ a.description = b.description
    /\ a.value_type = b.value_type
    /\ a.join_key = b.join_key

C2_JoinKeyNeverEmpty == \A o \in live : entities[o].join_key # ""

\* C2 amended: in every reachable state join_key is non-empty whenever name
\* is non-empty (join_key is empty only for an entity whose name is empty).
C2_JoinKeyEmptyOnlyWithName ==
    \A o \in live : entities[o].name # "" => entities[o].join_key # ""

C2_Witness ==
    /\ IsCall("update")
    /\ result.self_before.join_key = "dk"
    /\ Self.name = "driver" /\ Self.join_key = "driver"

\* C3: for every entity e, from_proto(e.to_proto()) == e under __eq__.
C3_ProtoRoundTrip ==
    IsCall("from_proto") =>
        \A s \in live \ {result.self} :
            result.arg = to_proto(entities[s], maps)
                => Eq(Self, <<"Entity", entities[s]>>, maps) = Returned(TRUE)

C3_Witness ==
    /\ IsCall("from_proto")
    /\ \E s \in live \ {result.self} :
          /\ result.arg = to_proto(entities[s], maps)
          /\ entities[s].join_key = "dk" /\ entities[s].value_type = "STRING"
          /\ Self.join_key = "dk"

\* C4: for every entity e, from_proto(e.to_proto()) has the created and the
\* last-updated timestamp of e, each on its own: set ones with the same value,
\* unset ones unset.
C4_TimestampRoundTrip ==
    IsCall("from_proto") =>
        \A s \in live \ {result.self} :
            result.arg = to_proto(entities[s], maps)
                => /\ Self.created_timestamp = entities[s].created_timestamp
                   /\ Self.last_updated_timestamp = entities[s].last_updated_timestamp

C4_Witness ==
    /\ IsCall("from_proto")
    /\ \E s \in live \ {result.self} :
          /\ result.arg = to_proto(entities[s], maps)
          /\ entities[s].created_timestamp = None
          /\ entities[s].last_updated_timestamp = Some(1000001)
          /\ Self.created_timestamp = None
          /\ Self.last_updated_timestamp = Some(1000001)

\* C5: for every entity e, to_dict() succeeds and from_dict(e.to_dict()) == e
\* under __eq__, also when to_dict() has removed the "meta" key.
C5_DictRoundTrip ==
    /\ \A s \in live : to_dict(entities[s], maps).raised = ""
    /\ IsCall("from_dict") =>
          \A s \in live \ {result.self} :
              result.arg = to_dict(entities[s], maps).value[1]
                  => Eq(Self, <<"Entity", entities[s]>>, maps) = Returned(TRUE)

C5_Witness ==
    /\ IsCall("from_dict")
    /\ \E s \in live \ {result.self} :
          /\ result.arg = to_dict(entities[s], maps).value[1]
          /\ "meta" \notin DOMAIN result.arg
          /\ entities[s].join_key = "dk" /\ entities[s].value_type = "STRING"
          /\ Self.join_key = "dk"

\* C6: to_dict() does not fail, and its result has a "meta" key exactly when
\* at least one of the two timestamps is set.
C6_MetaKey ==
    IsCall("to_dict") =>
        /\ result.ret.raised = ""
        /\ "meta" \in DOMAIN result.ret.value[1]
              <=> (Self.created_timestamp # None \/ Self.last_updated_timestamp # None)

C6_Witness ==
    /\ IsCall("to_dict")
    /\ Self.created_timestamp = None /\ Self.last_updated_timestamp = None
    /\ result.ret.raised = ""
    /\ DOMAIN result.ret.value[1] = {"spec"}

\* C7: a == b is True exactly when labels, name, description, value_type and
\* join_key are equal, whatever the timestamps; with a non-Entity operand it
\* raises TypeError and returns nothing.
C7_Equality ==
    IsCall("eq") =>
        IF result.other[1] = "Entity"
        THEN result.ret = Returned(FiveEqual(Self, entities[result.other[2]]))
        ELSE result.ret = Raised("TypeError")

C7_Witness ==
    /\ IsCall("eq")
    /\ result.other[1] = "Entity"
    /\ Self.created_timestamp # entities[result.other[2]].created_timestamp
    /\ result.ret = Returned(TRUE)

\* C8: after a._update_from_entity(b) each of the seven attributes of a is
\* the one b had, a == b, and b is as it was.
C8_UpdateOverwrites ==
    IsCall("update") =>
        /\ Self.name = result.other_before.name
        /\ Self.description = result.other_before.description
        /\ Self.value_type = result.other_before.value_type
        /\ Self.labels = result.other_before.labels
        /\ Self.join_key = result.other_before.join_key
        /\ Self.created_timestamp = result.other_before.created_timestamp
        /\ Self.last_updated_timestamp = result.other_before.last_updated_timestamp
        /\ Eq(Self, <<"Entity", entities[result.other]>>, maps) = Returned(TRUE)
        /\ entities[result.other] = result.other_before
        /\ LabelsOf(entities[result.other], maps) = result.other_labels_before

C8_Witness ==
    /\ IsCall("update")
    /\ result.self # result.other
    /\ result.self_before.created_timestamp # None
    /\ result.self_before.name # result.other_before.name
    /\ result.other_before.created_timestamp = None
    /\ Self.created_timestamp = None

\* C9: an entity constructed with the caller's mapping, and the two entities
\* of an _update_from_entity call, see the same labels after any insertions
\* and removals through either holder; the two entities stay equal.
C9_LabelsShared ==
    \A pr \in shared : \A h1 \in pr, h2 \in pr :
        /\ LabelsSeenBy(h1) = LabelsSeenBy(h2)
        /\ (h1 # Caller /\ h2 # Caller)
              => Eq(entities[h1], <<"Entity", entities[h2]>>, maps) = Returned(TRUE)

C9_Witness ==
    /\ IsCall("labels_set")
    /\ \E pr \in shared :
          /\ Caller \notin pr
          /\ result.self \in pr
          /\ \A h \in pr : LabelsSeenBy(h) # NoLabels

\* C10: two distinct instances never have the same hash, also when they
\* are equal; a step changes the hash of an instance exactly when it changes
\* its name.
C10_HashIdentity ==
    [][/\ \A a \in live', b \in live' :
            a # b => Hash(a, entities'[a]) # Hash(b, entities'[b])
       /\ \A o \in live :
            (Hash(o, entities'[o]) = Hash(o, entities[o]))
                <=> (entities'[o].name = entities[o].name)]_vars

C10_Witness ==
    /\ IsCall("hash")
    /\ \E b \in live \ {result.self} :
          /\ Eq(Self, <<"Entity", entities[b]>>, maps) = Returned(TRUE)
          /\ Hash(b, entities[b]) # result.ret

====
